---- MODULE Spec2Model ----
(***************************************************************************)
(* Model of the outfield positioning optimizer demo:                       *)
(*   src/app.py      optimize_outfield, api_compute, download              *)
(*   src/adapter.py  fetch_batted_balls (and its copy under                *)
(*                   src/railway_spray_widget/adapter.py)                  *)
(*                                                                         *)
(* Floating point numbers are modelled in fixed point: a distance is an    *)
(* integer number of 1/PREC units, NaN and +inf are two values outside     *)
(* the range of every distance.                                            *)
(***************************************************************************)
EXTENDS Integers, Sequences, FiniteSets, TLC

\* optimize_outfield: its frame, the grid steps, its position in the outer
\* loop, its locals and its return value; the score of an earlier, coarser run
VARIABLES df, steps, pc, lf_idx, best, best_score, result, coarse_steps, coarse_score
\* fetch_batted_balls: its argument, its locals, its return value, and the
\* requests it issued and the responses it got, in order
VARIABLES limit, rows, cursor, params, fetch_pc, returned, requests, pages
\* the web application: the file at LAST_CSV_PATH (<<>>: no file), the last
\* response, the positions of the last /api/compute that answered ok (<<>>:
\* none yet), and optimize_outfield(generate_spray(b, p)) for every batter b
\* and pitcher hand p, which is the same at every request of one process
VARIABLES csv, response, last_ok, placements

opt_vars == <<df, steps, pc, lf_idx, best, best_score, result, coarse_steps, coarse_score>>
fetch_vars == <<limit, rows, cursor, params, fetch_pc, returned, requests, pages>>
web_vars == <<csv, response, last_ok, placements>>
vars == <<opt_vars, fetch_vars, web_vars>>

(***************************************************************************)
(* Floats                                                                  *)
(***************************************************************************)
\* float("nan"): not a number, the result of any arithmetic on a NaN
NaN == -1
\* float("inf"), the initial best_score
Inf == 2000000000
\* fixed-point resolution of a distance: units per coordinate unit
PREC == 100
\* Python's None
None == "<None>"

RECURSIVE isqrt_bits(_, _, _)
\* floor(sqrt(n)), built bit by bit from the bit of weight b down
isqrt_bits(n, r, b) ==
    IF b = 0 THEN r
    ELSE IF (r + b) * (r + b) <= n THEN isqrt_bits(n, r + b, b \div 2)
         ELSE isqrt_bits(n, r, b \div 2)

\* np.hypot(dx, dy) = sqrt(dx^2 + dy^2) in 1/PREC units; NaN if dx or dy is NaN
hypot(dx, dy) ==
    IF dx = NaN \/ dy = NaN THEN NaN
    ELSE isqrt_bits((dx * dx + dy * dy) * PREC * PREC, 0, 16384)

\* bx - c: float subtraction, NaN - c = NaN
fsub(a, c) == IF a = NaN THEN NaN ELSE a - c

\* mutant: np.maximum in place of np.minimum
minimum_is_maximum(a, b) == IF a = NaN \/ b = NaN THEN NaN ELSE IF a > b THEN a ELSE b

\* np.minimum(a, b): propagates NaN
minimum(a, b) == IF a = NaN \/ b = NaN THEN NaN ELSE IF a < b THEN a ELSE b

\* a + b on floats
fadd(a, b) == IF a = NaN \/ b = NaN THEN NaN ELSE a + b

\* a < b on floats: every comparison with NaN is False
flt(a, b) == IF a = NaN \/ b = NaN THEN FALSE ELSE a < b

(***************************************************************************)
(* Candidate grids                                                         *)
(***************************************************************************)
\* mutant: the centres of the cells instead of their lower corners
range_cell_centres(start, stop, step) ==
    [n \in 1 .. (IF stop > start THEN (stop - start + step - 1) \div step ELSE 0)
        |-> start + (step \div 2) + (n - 1) * step]

\* range(start, stop, step) as a sequence
range(start, stop, step) ==
    [n \in 1 .. (IF stop > start THEN (stop - start + step - 1) \div step ELSE 0)
        |-> start + (n - 1) * step]

\* [(x,y) for x in xs for y in ys]: x outer, y inner
RECURSIVE grid_from(_, _, _)
grid_from(xs, ys, k) ==
    IF k > Len(xs) * Len(ys) THEN <<>>
    ELSE << <<xs[((k - 1) \div Len(ys)) + 1], ys[((k - 1) % Len(ys)) + 1]>> >>
         \o grid_from(xs, ys, k + 1)

grid(xs, ys) == grid_from(xs, ys, 1)

lf_grid(s) == grid(range(70, 120, s), range(260, 330, s))

\* mutant: the CF grid starts inside the LF zone
cf_grid_overlapping(s) == grid(range(110, 180, s), range(310, 380, s))

\* mutant: the CF grid with the y range of the corners
cf_grid_shallow(s) == grid(range(120, 180, s), range(260, 330, s))

cf_grid(s) == grid(range(120, 180, s), range(310, 380, s))
rf_grid(s) == grid(range(180, 230, s), range(260, 330, s))

\* the grid step the code uses for all three zones
STEP == 10

(***************************************************************************)
(* optimize_outfield                                                       *)
(***************************************************************************)
RECURSIVE dists_from(_, _, _)
dists_from(d, c, i) ==
    IF i > Len(d) THEN <<>>
    ELSE <<hypot(fsub(d[i][1], c[1]), fsub(d[i][2], c[2]))>> \o dists_from(d, c, i + 1)

\* np.hypot(bx - c[0], by - c[1]): one distance per row of the frame
dists(d, c) == dists_from(d, c, 1)

RECURSIVE all_dists(_, _, _)
\* dists(d, g[k]) for the candidates k, k+1, ... of the grid g.  The code
\* evaluates np.hypot anew in every iteration of the inner loops; its value
\* depends on the candidate alone, so it is evaluated once per candidate here.
all_dists(d, g, k) ==
    IF k > Len(g) THEN <<>> ELSE <<dists(d, g[k])>> \o all_dists(d, g, k + 1)

RECURSIVE total_of(_, _, _, _)
\* np.minimum(np.minimum(dlf, dcf), drf).sum(), rows i, i+1, ...; 0.0 for no rows
total_of(dlf, dcf, drf, i) ==
    IF i > Len(dlf) THEN 0
    ELSE fadd(minimum(minimum(dlf[i], dcf[i]), drf[i]), total_of(dlf, dcf, drf, i + 1))

\* total_distance of one triple of candidates
total_distance(d, lf, cf, rf) == total_of(dists(d, lf), dists(d, cf), dists(d, rf), 1)

\* mutant: <= in place of <, a tie replaces the best
update_on_tie(acc, total, lf, cf, rf) ==
    IF flt(total, acc.best_score) \/ (total # NaN /\ total = acc.best_score)
    THEN [best_score |-> total, best |-> [LF |-> lf, CF |-> cf, RF |-> rf]]
    ELSE acc

\* if total_distance < best_score: best_score = total_distance; best = {...}
update(acc, total, lf, cf, rf) ==
    IF flt(total, acc.best_score)
    THEN [best_score |-> total, best |-> [LF |-> lf, CF |-> cf, RF |-> rf]]
    ELSE acc

RECURSIVE for_rf(_, _, _, _, _, _, _, _)
\* for rf in rf_grid: drf = ...; total_distance = ...; if ...
\* (the accumulator is evaluated at every iteration)
for_rf(rfg, DRF, k, lf, dlf, cf, dcf, acc) ==
    IF k > Len(rfg) THEN acc
    ELSE LET nxt == update(acc, total_of(dlf, dcf, DRF[k], 1), lf, cf, rfg[k])
         IN IF nxt = acc
            THEN for_rf(rfg, DRF, k + 1, lf, dlf, cf, dcf, acc)
            ELSE for_rf(rfg, DRF, k + 1, lf, dlf, cf, dcf, nxt)

RECURSIVE for_cf(_, _, _, _, _, _, _, _)
\* for cf in cf_grid: dcf = ...; for rf in rf_grid: ...
for_cf(cfg, DCF, rfg, DRF, j, lf, dlf, acc) ==
    IF j > Len(cfg) THEN acc
    ELSE LET nxt == for_rf(rfg, DRF, 1, lf, dlf, cfg[j], DCF[j], acc)
         IN IF nxt = acc
            THEN for_cf(cfg, DCF, rfg, DRF, j + 1, lf, dlf, acc)
            ELSE for_cf(cfg, DCF, rfg, DRF, j + 1, lf, dlf, nxt)

\* one iteration of the outer loop, for lf in lf_grid: dlf = ...; for cf ...
lf_iteration(d, lf, cfg, rfg, acc) ==
    for_cf(cfg, all_dists(d, cfg, 1), rfg, all_dists(d, rfg, 1), 1, lf, dists(d, lf), acc)

RECURSIVE for_lf(_, _, _, _, _, _)
for_lf(d, lfg, cfg, rfg, i, acc) ==
    IF i > Len(lfg) THEN acc
    ELSE LET nxt == lf_iteration(d, lfg[i], cfg, rfg, acc)
         IN IF nxt = acc
            THEN for_lf(d, lfg, cfg, rfg, i + 1, acc)
            ELSE for_lf(d, lfg, cfg, rfg, i + 1, nxt)

\* best_score = float("inf"); best = {} (the empty mapping)
initial_best == [best_score |-> Inf, best |-> <<>>]

\* optimize_outfield(df) as a function: the three loops, then return best
optimize_outfield(d) ==
    for_lf(d, lf_grid(STEP), cf_grid(STEP), rf_grid(STEP), 1, initial_best).best

(***************************************************************************)
(* The optimizer as a process: one step per iteration of the outer loop.   *)
(* df is the frame it was called with, steps the grid steps of the three   *)
(* zones (all STEP in the source), lf_idx the index of the next LF candidate.   *)
(***************************************************************************)
\* the frames the optimizer is called with
Frames ==
    { <<>>,
      << <<100, 300>> >>,
      << <<105, 300>> >>,
      << <<115, 325>> >>,
      << <<70, 320>>, <<120, 310>> >>,
      << <<100, 300>>, <<NaN, 300>> >>,
      << <<NaN, NaN>> >>,
      << <<90, 280>>, <<150, 345>>, <<205, 275>> >> }

InitOpt ==
    /\ pc = "loop"
    /\ lf_idx = 1
    /\ best = initial_best.best
    /\ best_score = initial_best.best_score
    /\ result = "none"

\* fetch_batted_balls is not running
FetchIdle ==
    /\ limit = 0 /\ rows = <<>> /\ cursor = None /\ params = None
    /\ fetch_pc = "idle" /\ returned = <<>> /\ requests = <<>> /\ pages = <<>>

\* the web application is not running
WebIdle ==
    /\ csv = <<>> /\ response = [route |-> "none"] /\ last_ok = <<>> /\ placements = <<>>

\* optimize_outfield is not running
OptIdle ==
    /\ df = <<>> /\ steps = <<STEP, STEP, STEP>> /\ pc = "idle" /\ lf_idx = 1
    /\ best = <<>> /\ best_score = Inf /\ result = "none"
    /\ coarse_steps = <<>> /\ coarse_score = Inf

Init ==
    /\ df \in Frames
    /\ steps = <<STEP, STEP, STEP>>
    /\ InitOpt
    /\ coarse_steps = <<>>
    /\ coarse_score = Inf
    /\ FetchIdle /\ WebIdle

\* one iteration of "for lf in lf_grid"
LfIteration ==
    /\ pc = "loop"
    /\ lf_idx <= Len(lf_grid(steps[1]))
    /\ LET acc == lf_iteration(df, lf_grid(steps[1])[lf_idx], cf_grid(steps[2]),
                               rf_grid(steps[3]),
                               [best_score |-> best_score, best |-> best])
       IN /\ best' = acc.best
          /\ best_score' = acc.best_score
    /\ lf_idx' = lf_idx + 1
    /\ UNCHANGED <<df, steps, pc, result, coarse_steps, coarse_score, fetch_vars, web_vars>>

\* return best
Return ==
    /\ pc = "loop"
    /\ lf_idx > Len(lf_grid(steps[1]))
    /\ pc' = "done"
    /\ result' = best
    /\ UNCHANGED <<df, steps, lf_idx, best, best_score, coarse_steps, coarse_score,
                   fetch_vars, web_vars>>

Next == LfIteration \/ Return

Spec == Init /\ [][Next]_vars

(***************************************************************************)
(* Refinement of one zone's grid: the optimizer is run with a coarser step *)
(* in one zone, then again with a finer step in that zone and the same     *)
(* zone bounds.  The source fixes the step of every zone at STEP.          *)
(***************************************************************************)
RefineFrames ==
    { << <<90, 280>> >>,
      << <<100, 290>>, <<150, 340>> >>,
      << <<205, 275>>, <<NaN, 300>> >> }

\* one zone coarser than the source
CoarseSteps ==
    { <<2 * STEP, STEP, STEP>>, <<STEP, 2 * STEP, STEP>>, <<STEP, STEP, 2 * STEP>> }

\* the steps a coarse zone is refined to
FinerSteps == { STEP, (3 * STEP) \div 2 }

InitRefine ==
    /\ df \in RefineFrames
    /\ steps \in CoarseSteps
    /\ InitOpt
    /\ coarse_steps = <<>>
    /\ coarse_score = Inf
    /\ FetchIdle /\ WebIdle

\* the same frame again, with a finer step in one zone
Refine ==
    /\ pc = "done"
    /\ coarse_steps = <<>>
    /\ \E z \in 1 .. 3 : \E f \in FinerSteps :
          /\ f < steps[z]
          /\ steps' = [steps EXCEPT ![z] = f]
    /\ coarse_steps' = steps
    /\ coarse_score' = best_score
    /\ pc' = "loop"
    /\ lf_idx' = 1
    /\ best' = initial_best.best
    /\ best_score' = initial_best.best_score
    /\ result' = "none"
    /\ UNCHANGED <<df, fetch_vars, web_vars>>

NextRefine == LfIteration \/ Return \/ Refine

SpecRefine == InitRefine /\ [][NextRefine]_vars

(***************************************************************************)
(* Properties of optimize_outfield (checked under Spec)                    *)
(***************************************************************************)
LFG == lf_grid(STEP)
CFG == cf_grid(STEP)
RFG == rf_grid(STEP)

IsTriple(b) == DOMAIN b = {"LF", "CF", "RF"}

HasNaN(p) == p[1] = NaN \/ p[2] = NaN

AllFinite(d) == \A n \in 1 .. Len(d) : ~HasNaN(d[n])

\* the rows of d without a NaN coordinate, in order
DropNaN(d) == SelectSeq(d, LAMBDA p : ~HasNaN(p))

\* the index of candidate c in grid g
IndexIn(g, c) == CHOOSE n \in 1 .. Len(g) : g[n] = c

\* <<a, b, c>> comes no later than <<x, y, z>> in the enumeration order
\* LF outer, CF middle, RF inner
NoLater(a, b, c, x, y, z) ==
    \/ a < x
    \/ a = x /\ b < y
    \/ a = x /\ b = y /\ c <= z

\* C1: for a non-empty frame with finite coordinates the returned triple is
\* the first one, in the order LF outer / CF middle / RF inner, whose total
\* distance equals the minimum over all combinations of candidates.
C1_FirstMinimalTriple ==
    (pc = "done" /\ Len(df) > 0 /\ AllFinite(df)) =>
        /\ IsTriple(result)
        /\ LET DLF == all_dists(df, LFG, 1)
               DCF == all_dists(df, CFG, 1)
               DRF == all_dists(df, RFG, 1)
               a == IndexIn(LFG, result.LF)
               b == IndexIn(CFG, result.CF)
               c == IndexIn(RFG, result.RF)
               least == total_of(DLF[a], DCF[b], DRF[c], 1)
           IN /\ best_score = least
              /\ \A x \in 1 .. Len(LFG), y \in 1 .. Len(CFG), z \in 1 .. Len(RFG) :
                    LET t == total_of(DLF[x], DCF[y], DRF[z], 1)
                    IN t >= least /\ (t = least => NoLater(a, b, c, x, y, z))

\* C1 witness: a finite frame was optimized and the minimum is attained by
\* more than one triple, so the order of enumeration decided
C1_Witness ==
    /\ pc = "done" /\ Len(df) > 0 /\ AllFinite(df) /\ IsTriple(result)
    /\ \E z \in 1 .. Len(RFG) :
          /\ RFG[z] # result.RF
          /\ total_distance(df, result.LF, result.CF, RFG[z]) = best_score

\* C2 (as claimed): for an empty frame the optimizer returns a NaN position
\* for each of LF, CF and RF and a total distance of zero.
C2_EmptyInputLaw ==
    (pc = "done" /\ Len(df) = 0) =>
        /\ result = [LF |-> <<NaN, NaN>>, CF |-> <<NaN, NaN>>, RF |-> <<NaN, NaN>>]
        /\ best_score = 0

\* C3 (as claimed): rows with a NaN coordinate are excluded, the result for a
\* frame with at least one finite row is the mapping with keys LF, CF, RF
\* returned for the frame without its NaN rows.
C3_NaNRowsExcluded ==
    (pc = "done" /\ ~AllFinite(df) /\ Len(DropNaN(df)) > 0) =>
        /\ IsTriple(result)
        /\ result = optimize_outfield(DropNaN(df))

\* the rectangle range(70,120,10) x range(260,330,10) describes
InLFZone(p) == ~HasNaN(p) /\ 70 <= p[1] /\ p[1] < 120 /\ 260 <= p[2] /\ p[2] < 330

\* the rectangle the LF candidates span
InLFGridHull(p) ==
    /\ ~HasNaN(p)
    /\ \E n \in 1 .. Len(LFG) : LFG[n][1] <= p[1] /\ LFG[n][2] <= p[2]
    /\ \E n \in 1 .. Len(LFG) : LFG[n][1] >= p[1] /\ LFG[n][2] >= p[2]

\* LF is an LF candidate nearest to p and the total is the distance to it
NearestLF(p) ==
    /\ IsTriple(result)
    /\ \E n \in 1 .. Len(LFG) : LFG[n] = result.LF
    /\ \A n \in 1 .. Len(LFG) :
          hypot(p[1] - result.LF[1], p[2] - result.LF[2])
              <= hypot(p[1] - LFG[n][1], p[2] - LFG[n][2])
    /\ best_score = hypot(p[1] - result.LF[1], p[2] - result.LF[2])

\* C4 (as claimed): for a single point inside the LF zone rectangle the
\* optimizer selects the LF candidate nearest to it, and the total distance
\* is the distance from the point to that candidate.
C4_SinglePointInLFZone ==
    (pc = "done" /\ Len(df) = 1 /\ InLFZone(df[1])) => NearestLF(df[1])

\* C4 (amended): the same for a single point inside the rectangle spanned by
\* the LF candidates, 70 <= x <= 110 and 260 <= y <= 320.
C4_SinglePointInLFGridHull ==
    (pc = "done" /\ Len(df) = 1 /\ InLFGridHull(df[1])) => NearestLF(df[1])

\* C4 witness: a single point between LF candidates was optimized
C4_Witness ==
    pc = "done" /\ Len(df) = 1 /\ InLFGridHull(df[1]) /\ best_score > 0

\* C6: the grids are ordered left < center < right in x, so that every
\* returned triple has LF.x < CF.x < RF.x and three distinct positions.
C6_ZonesOrdered ==
    /\ \A l \in 1 .. Len(LFG), c \in 1 .. Len(CFG), r \in 1 .. Len(RFG) :
          LFG[l][1] < CFG[c][1] /\ CFG[c][1] < RFG[r][1]
    /\ (pc = "done" /\ IsTriple(result)) =>
          /\ result.LF[1] < result.CF[1] /\ result.CF[1] < result.RF[1]
          /\ result.LF # result.CF /\ result.CF # result.RF /\ result.LF # result.RF

\* C6 witness: a triple was returned
C6_Witness == pc = "done" /\ IsTriple(result) /\ Len(df) > 1

\* C7 (as claimed): in every returned triple CF is deeper than LF and RF.
C7_CenterDeeper ==
    (pc = "done" /\ IsTriple(result)) =>
        result.CF[2] > result.LF[2] /\ result.CF[2] > result.RF[2]

MinY(g) == CHOOSE y \in {g[n][2] : n \in 1 .. Len(g)} : \A n \in 1 .. Len(g) : y <= g[n][2]
MaxY(g) == CHOOSE y \in {g[n][2] : n \in 1 .. Len(g)} : \A n \in 1 .. Len(g) : y >= g[n][2]

\* C7 (amended): the CF grid is biased deeper than the corner grids: its
\* shallowest and its deepest row are deeper than theirs, and in every
\* returned triple CF is at most one grid step shallower than LF and RF.
C7_CenterBiasedDeeper ==
    /\ MinY(CFG) > MinY(LFG) /\ MinY(CFG) > MinY(RFG)
    /\ MaxY(CFG) > MaxY(LFG) /\ MaxY(CFG) > MaxY(RFG)
    /\ (pc = "done" /\ IsTriple(result)) =>
          /\ result.CF[2] >= result.LF[2] - STEP
          /\ result.CF[2] >= result.RF[2] - STEP

\* C7 witness: a returned triple whose CF is shallower than its LF
C7_Witness == pc = "done" /\ IsTriple(result) /\ result.CF[2] < result.LF[2]

(***************************************************************************)
(* Properties of grid refinement (checked under SpecRefine)                *)
(***************************************************************************)
Refined == pc = "done" /\ coarse_steps # <<>>

\* every zone's step divides the step it had in the coarser run
StepsDivide == \A z \in 1 .. 3 : coarse_steps[z] % steps[z] = 0

MaxLimit == 3
\* the largest number of items on one page
MaxItems == 2
\* the requests after which the model stops a loop the server keeps alive
MaxReq == MaxLimit + 2

\* the values of "next_cursor": absent (None), empty, or a cursor
Cursors == {None, "", "c1", "c2"}

\* bool(cursor)
truthy(c) == c # None /\ c # ""

\* the pages a server may answer after n rows: any items, any next_cursor
AnyPage(n) ==
    { [items |-> [k \in 1 .. m |-> n + k], next_cursor |-> c] :
        m \in 0 .. MaxItems, c \in Cursors }

\* the pages of a server that sends at least one item with every next_cursor
ProgressPage(n) == { r \in AnyPage(n) : truthy(r.next_cursor) => Len(r.items) >= 1 }

\* mutant: rows instead of rows[:limit]
slice_none(s, n) == s

\* s[:n]
slice_to(s, n) ==
    IF n >= 0 THEN SubSeq(s, 1, IF n < Len(s) THEN n ELSE Len(s))
    ELSE SubSeq(s, 1, IF Len(s) + n > 0 THEN Len(s) + n ELSE 0)

\* mutant: > in place of >=
break_loop_off_by_one(c, rws, lim) == ~truthy(c) \/ Len(rws) > lim

\* if not cursor or len(rows) >= limit: break
break_loop(c, rws, lim) == ~truthy(c) \/ Len(rws) >= lim

InitFetch ==
    /\ limit \in 0 .. MaxLimit
    /\ rows = <<>>
    /\ cursor = None
    /\ params = None
    /\ fetch_pc = "loop"
    /\ returned = <<>>
    /\ requests = <<>>
    /\ pages = <<>>
    /\ OptIdle /\ WebIdle

\* one iteration of "while True", the request answered with a page of Page;
\* params is the "cursor" entry of the request parameters
Iteration(Page(_)) ==
    /\ fetch_pc = "loop"
    /\ Len(requests) < MaxReq
    /\ LET sent == IF truthy(cursor) THEN cursor ELSE params
       IN /\ params' = sent
          /\ requests' = Append(requests, sent)
    /\ \E data \in Page(Len(rows)) :
          LET extended == rows \o data.items
          IN /\ rows' = extended
             /\ cursor' = data.next_cursor
             /\ pages' = Append(pages, data)
             /\ IF break_loop(data.next_cursor, extended, limit)
                THEN /\ fetch_pc' = "returned"
                     /\ returned' = slice_to(extended, limit)
                ELSE /\ fetch_pc' = "loop"
                     /\ UNCHANGED returned
    /\ UNCHANGED <<limit, opt_vars, web_vars>>

\* an iteration with any server
Request == Iteration(AnyPage)

\* an iteration with a server that makes progress
RequestAnswered == Iteration(ProgressPage)

\* _get raises (no BASE, a timeout, an HTTP error): the exception leaves
\* fetch_batted_balls
RequestFails ==
    /\ fetch_pc = "loop"
    /\ Len(requests) < MaxReq
    /\ LET sent == IF truthy(cursor) THEN cursor ELSE params
       IN /\ params' = sent
          /\ requests' = Append(requests, sent)
    /\ fetch_pc' = "raised"
    /\ UNCHANGED <<limit, rows, cursor, returned, pages, opt_vars, web_vars>>

NextFetch == Request \/ RequestFails

SpecFetch == InitFetch /\ [][NextFetch]_vars

NextFetchAnswered == RequestAnswered

\* every request is answered and the loop goes on as long as it can
SpecFetchAnswered == InitFetch /\ [][NextFetchAnswered]_vars /\ WF_vars(RequestAnswered)

(***************************************************************************)
(* Properties of fetch_batted_balls                                        *)
(***************************************************************************)
RECURSIVE Fetched(_)
\* the rows of the first n pages, in request order
Fetched(n) == IF n = 0 THEN <<>> ELSE Fetched(n - 1) \o pages[n].items

FirstRows(s, n) == SubSeq(s, 1, IF n < Len(s) THEN n ELSE Len(s))

ReturnsFirstRows ==
    fetch_pc = "returned" =>
        /\ returned = FirstRows(Fetched(Len(pages)), limit)
        /\ Len(returned) <= limit

CarriesCursor ==
    \A r \in 2 .. Len(requests) : requests[r] = pages[r - 1].next_cursor

\* request r was issued after a response with a next_cursor and with fewer
\* than limit rows collected
Warranted(r) ==
    /\ r > 1 => truthy(pages[r - 1].next_cursor)
    /\ Len(Fetched(r - 1)) < limit

\* C9 (as claimed): for limit >= 0 the function returns the first
\* min(limit, n) of the n rows it fetched, every request after the first
\* carries the next_cursor of the response before it, and no request is
\* issued after a response without next_cursor or once at least limit rows
\* have been collected.
C9_Pagination ==
    /\ ReturnsFirstRows
    /\ CarriesCursor
    /\ \A r \in 1 .. Len(requests) : Warranted(r)

\* C9 (amended): the same, the first request excepted, which is issued
\* whatever the limit.
C9_PaginationAfterFirstRequest ==
    /\ ReturnsFirstRows
    /\ CarriesCursor
    /\ \A r \in 2 .. Len(requests) : Warranted(r)

\* C9 witness: a return after several requests that cut rows off
C9_Witness ==
    /\ fetch_pc = "returned" /\ Len(requests) >= 2
    /\ Len(Fetched(Len(pages))) > limit /\ limit > 0

\* C10: when every request is answered and every response with a
\* next_cursor carries an item, the function returns, after at most
\* max(limit, 1) requests.
C10_Terminates ==
    /\ <>(fetch_pc = "returned")
    /\ [](Len(requests) <= IF limit > 1 THEN limit ELSE 1)

\* C10 witness: a return after exactly limit requests, limit >= 2
C10_Witness == fetch_pc = "returned" /\ limit >= 2 /\ Len(requests) = limit

(***************************************************************************)
(* The web application (src/app.py): /api/compute and /download            *)
(***************************************************************************)
BATTERS ==
    [dickerson_L |-> [label |-> "Corey Dickerson (L)", batter_hand |-> "L"],
     dickerson_R |-> [label |-> "Corey Dickerson (R)", batter_hand |-> "R"]]

\* the number of balls of a synthetic spray (n = 180 in the source)
SampleSize == 2

\* standard normal draws, in units of one standard deviation
Draws == <<-1, 1, 0, 2>>

\* abs(hash(batter_id + "_" + pitcher_hand)) % (2**32): one seed per string
seed_of(batter_id, pitcher_hand) ==
    (IF batter_id = "dickerson_L" THEN 0 ELSE 1)
    + (IF pitcher_hand = "RHP" THEN 0 ELSE IF pitcher_hand = "LHP" THEN 2 ELSE 3)

\* the k-th draw of rng.normal(mean, sd, n)
normal(seed, k, mean, sd) == mean + sd * Draws[((seed + k) % Len(Draws)) + 1]

\* np.clip(v, lo, hi)
clip(v, lo, hi) == IF v < lo THEN lo ELSE IF v > hi THEN hi ELSE v

\* generate_spray(batter_id, pitcher_hand): the frame of x, y
generate_spray(batter_id, pitcher_hand) ==
    LET bhand == BATTERS[batter_id].batter_hand
        seed == seed_of(batter_id, pitcher_hand)
        mean == IF bhand = "L" /\ pitcher_hand = "RHP" THEN 210
                ELSE IF bhand = "L" /\ pitcher_hand = "LHP" THEN 150
                ELSE IF bhand = "R" /\ pitcher_hand = "LHP" THEN 90
                ELSE 150
    IN [k \in 1 .. SampleSize |->
          <<clip(normal(seed, k, mean, 25), 50, 250),
            clip(normal(seed, SampleSize + k, 310, 35), 230, 400)>>]

\* pd.DataFrame.from_dict(positions, orient="index", columns=["X","Y"]).to_csv:
\* a header and one line per fielder
to_csv(positions) ==
    << <<"", "X", "Y">> >> \o
    [k \in 1 .. 3 |->
        LET name == <<"LF", "CF", "RF">>[k]
        IN <<name, positions[name][1], positions[name][2]>>]

\* the request bodies: batter_id and pitcher_hand, each possibly missing;
\* the handler accepts any pitcher_hand
BatterIds == {"dickerson_L", "dickerson_R", "nobody", None}
PitcherHands == {"RHP", "LHP", "SHP", None}

InitWeb ==
    /\ csv = <<>>
    /\ response = [route |-> "none"]
    /\ last_ok = <<>>
    /\ placements = [b \in DOMAIN BATTERS, p \in PitcherHands \ {None} |->
                        optimize_outfield(generate_spray(b, p))]
    /\ OptIdle /\ FetchIdle

\* POST /api/compute with a JSON body; plot_ok: make_plot returns
ApiCompute ==
    /\ \E b \in BatterIds, p \in PitcherHands, plot_ok \in BOOLEAN :
        LET batter_id == b
            pitcher_hand == IF p = None THEN "RHP" ELSE p
        IN IF batter_id \notin DOMAIN BATTERS
           THEN /\ response' = [route |-> "/api/compute", status |-> 400, ok |-> FALSE,
                                error |-> "Unknown batter"]
                /\ UNCHANGED <<csv, last_ok>>
           ELSE LET positions == placements[batter_id, pitcher_hand]
                IN /\ csv' = to_csv(positions)
                   /\ IF plot_ok
                      THEN /\ response' = [route |-> "/api/compute", status |-> 200,
                                           ok |-> TRUE, batter_id |-> batter_id,
                                           pitcher_hand |-> pitcher_hand,
                                           positions |-> positions]
                           /\ last_ok' = positions
                      ELSE /\ response' = [route |-> "/api/compute", status |-> 500,
                                           ok |-> FALSE, error |-> "make_plot"]
                           /\ UNCHANGED last_ok
    /\ UNCHANGED <<placements, opt_vars, fetch_vars>>

\* POST /api/compute with a body that is no JSON object: get_json or
\* payload.get raises
ApiComputeBadBody ==
    /\ response' = [route |-> "/api/compute", status |-> 500, ok |-> FALSE,
                    error |-> "payload"]
    /\ UNCHANGED <<csv, last_ok, placements, opt_vars, fetch_vars>>

\* GET /download
Download ==
    /\ response' = IF csv = <<>>
                   THEN [route |-> "/download", status |-> 404,
                         body |-> << <<"Run an optimization first.">> >>]
                   ELSE [route |-> "/download", status |-> 200, body |-> csv]
    /\ UNCHANGED <<csv, last_ok, placements, opt_vars, fetch_vars>>

NextWeb == ApiCompute \/ ApiComputeBadBody \/ Download

SpecWeb == InitWeb /\ [][NextWeb]_vars

\* C8 (as claimed): the stored CSV holds the positions of the most recent
\* /api/compute that answered ok (a request answered with an error leaves
\* it unchanged), and /download answers 404 "Run an optimization first." as
\* long as there is none, and the stored CSV otherwise.
C8_DownloadServesLastOk ==
    /\ csv = IF last_ok = <<>> THEN <<>> ELSE to_csv(last_ok)
    /\ response.route = "/download" =>
          IF csv = <<>>
          THEN response.status = 404
               /\ response.body = << <<"Run an optimization first.">> >>
          ELSE response.status = 200 /\ response.body = csv

====
